---- MODULE Spec2Model ----
(***************************************************************************)
(* AI Kuis Cita-cita: the question normaliser and the quiz session of the  *)
(* two script variants kept under src/.history:                            *)
(*   "v1" = app_20250819094203.py (multiple choice only, gated submit,     *)
(*          padding, start wrapped in try/except)                          *)
(*   "v2" = app_20250819110339.py (multiple choice and matching, ungated   *)
(*          submit, no padding, no try/except)                             *)
(* A decoded JSON value is a pair <<tag, payload>>; a Python string is the *)
(* sequence of its characters, so that strip/upper/split/startswith are    *)
(* computed as the code computes them.                                     *)
(***************************************************************************)
EXTENDS Integers, Sequences, FiniteSets, TLC

VARIABLES variant, questions, answers, current_index, submitted,
          radio, selectbox, view, correct_flags, score, event,
          raw, ordinal, result

vars == <<variant, questions, answers, current_index, submitted,
          radio, selectbox, view, correct_flags, score, event,
          raw, ordinal, result>>

sessionVars == <<questions, answers, current_index, submitted>>
normVars == <<raw, ordinal, result>>

(***************************************************************************)
(* Bounds                                                                  *)
(***************************************************************************)
\* n of generate_questions: the number of questions asked for
RequestedCount == 2
\* largest ordinal handed to normalize_question in the normaliser runs
MaxOrdinal == 1

(***************************************************************************)
(* Decoded JSON values (json.loads) and Python values                      *)
(***************************************************************************)
JNull == <<"null", 0>>
JNum(n) == <<"num", n>>
JStr(s) == <<"str", s>>
JList(l) == <<"list", l>>
JObj(d) == <<"obj", d>>
\* a key the object does not have
Absent == <<"absent", 0>>
\* an exception leaving the function
Raise == <<"raise", 0>>

letters == <<"A", "B", "C", "D">>
LetterSet == {"A", "B", "C", "D"}

MULTIPLE_CHOICE == <<"m","u","l","t","i","p","l","e","_","c","h","o","i","c","e">>
MATCHING == <<"m","a","t","c","h","i","n","g">>
TEXT == <<"t","e","x","t">>
ESSAY == <<"e","s","s","a","y">>

\* str.upper() on one character
UpperChar(c) ==
    CASE c = "a" -> "A" [] c = "b" -> "B" [] c = "c" -> "C" [] c = "d" -> "D"
      [] c = "e" -> "E" [] c = "h" -> "H" [] c = "i" -> "I" [] c = "l" -> "L"
      [] c = "m" -> "M" [] c = "n" -> "N" [] c = "o" -> "O" [] c = "p" -> "P"
      [] c = "r" -> "R" [] c = "s" -> "S" [] c = "t" -> "T" [] c = "u" -> "U"
      [] c = "x" -> "X" [] c = "y" -> "Y" [] c = "z" -> "Z" [] c = "g" -> "G"
      [] c = "f" -> "F" [] c = "j" -> "J" [] c = "k" -> "K" [] c = "q" -> "Q"
      [] c = "v" -> "V" [] c = "w" -> "W"
      [] OTHER -> c

\* str.upper()
Upper(s) == [i \in 1..Len(s) |-> UpperChar(s[i])]

\* the whitespace characters of the texts considered
Whitespace == {" ", "\n"}

RECURSIVE LStrip(_)
LStrip(s) == IF s # <<>> /\ Head(s) \in Whitespace THEN LStrip(Tail(s)) ELSE s

RECURSIVE RStrip(_)
RStrip(s) ==
    IF s # <<>> /\ s[Len(s)] \in Whitespace THEN RStrip(SubSeq(s, 1, Len(s) - 1)) ELSE s

\* str.strip()
Strip(s) == RStrip(LStrip(s))

\* str.startswith(p)
StartsWith(s, p) == Len(s) >= Len(p) /\ SubSeq(s, 1, Len(p)) = p

\* p in s, for strings
Contains(s, p) == \E i \in 0..(Len(s) - Len(p)) : SubSeq(s, i + 1, i + Len(p)) = p

\* s.split(".")[0]
RECURSIVE SplitDot0(_)
SplitDot0(s) == IF s = <<>> \/ Head(s) = "." THEN <<>> ELSE <<Head(s)>> \o SplitDot0(Tail(s))

\* the decimal digits of a number 0..9
Digit(n) == <<"0","1","2","3","4","5","6","7","8","9">>[n + 1]

RECURSIVE Repr(_)
RECURSIVE ReprItems(_)
\* repr() of a decoded value, as str() of a list prints its elements
Repr(x) ==
    CASE x[1] = "str" -> <<"'">> \o x[2] \o <<"'">>
      [] x[1] = "num" -> <<Digit(x[2])>>
      [] x[1] = "null" -> <<"N","o","n","e">>
      [] x[1] = "list" -> <<"[">> \o ReprItems(x[2]) \o <<"]">>
      [] OTHER -> <<"{", "}">>
ReprItems(l) ==
    IF l = <<>> THEN <<>>
    ELSE IF Len(l) = 1 THEN Repr(l[1])
    ELSE Repr(l[1]) \o <<",", " ">> \o ReprItems(Tail(l))

\* str(x), also what an f-string prints for x
Str(x) == IF x[1] = "str" THEN x[2] ELSE Repr(x)

\* q.get(k, default)
Get(q, k, default) == IF k \in DOMAIN q THEN q[k] ELSE default

\* q.setdefault(k, default)
SetDefault(q, k, default) == IF k \in DOMAIN q THEN q ELSE q @@ (k :> default)

\* q[k] = x
SetItem(q, k, x) == [j \in DOMAIN q \cup {k} |-> IF j = k THEN x ELSE q[j]]

\* dict(q): a mapping is copied, an empty sequence or string gives {}, any
\* other decoded value of the inputs considered here raises
DictRaises(q) == ~(q[1] = "obj" \/ (q[1] \in {"list", "str"} /\ q[2] = <<>>))
EmptyDict == [k \in {} |-> Absent]
Dict(q) == IF q[1] = "obj" THEN q[2] ELSE EmptyDict

(***************************************************************************)
(* normalize_question                                                      *)
(***************************************************************************)
BENAR == <<"(","B","E","N","A","R",")">>
CORRECT == <<"(","C","O","R","R","E","C","T",")">>

DefaultOptions == [i \in 1..4 |-> JStr(<<letters[i], ".", " ">>)]

\* options given as a mapping {"A": ..} (v1)
OptionsFromDict(opts) ==
    [i \in 1..4 |-> JStr(<<letters[i], ".", " ">> \o Str(Get(opts, letters[i], JStr(<<>>))))]

\* one entry of a list of options, labelled unless it already starts with its letter (v1)
LabelOption(item, i) ==
    LET s == Str(item)
    IN  IF ~StartsWith(Upper(Strip(s)), <<letters[i], ".">>)
        THEN JStr(<<letters[i], ".", " ">> \o s)
        ELSE JStr(s)

\* options given as a list: at most 4 taken, labelled, padded to 4 (v1)
OptionsFromList(opts) ==
    [i \in 1..4 |-> IF i <= Len(opts) THEN LabelOption(opts[i], i)
                                       ELSE JStr(<<letters[i], ".", " ">>)]

\* the first letter whose option carries a correctness marker, "" when none (v1)
RECURSIVE Detect(_, _)
Detect(options, i) ==
    IF i > 4 \/ i > Len(options) THEN <<>>
    ELSE IF Contains(Upper(options[i][2]), BENAR) \/ Contains(Upper(options[i][2]), CORRECT)
         THEN <<letters[i]>>
         ELSE Detect(options, i + 1)

normalize_question_v1(q, idx) ==
    IF DictRaises(q) THEN Raise
    ELSE
    LET q1 == SetDefault(Dict(q), "id", JNum(idx + 1))
        q2 == SetDefault(q1, "type", JStr(TEXT))
        q3 == SetDefault(q2, "options", JList(<<>>))
        q4 == SetDefault(q3, "answer", JStr(<<"A">>))
        opts == q4["options"]
        options == IF opts[1] = "obj" THEN OptionsFromDict(opts[2])
                   ELSE IF opts[1] = "list" THEN OptionsFromList(opts[2])
                   ELSE DefaultOptions
        q5 == SetItem(q4, "options", JList(options))
        ans0 == Upper(Strip(Str(q5["answer"])))
        detected == Detect(options, 1)
        ans == IF ans0 \in {<<l>> : l \in LetterSet} THEN ans0
               ELSE IF detected # <<>> THEN detected ELSE <<"A">>
        q6 == SetItem(q5, "answer", JStr(ans))
    IN  IF q6["type"][1] # "str" THEN Raise ELSE JObj(q6)

normalize_question_v2(q, idx) ==
    IF DictRaises(q) THEN Raise
    ELSE
    LET q1 == SetDefault(Dict(q), "id", JNum(idx + 1))
        q2 == SetDefault(q1, "type", JStr(MULTIPLE_CHOICE))
    IN  IF q2["type"] = JStr(MULTIPLE_CHOICE)
        THEN LET q3 == SetDefault(q2, "options", JList(DefaultOptions))
                 ans0 == Upper(Strip(Str(Get(q3, "answer", JStr(<<"A">>)))))
                 ans == IF ans0 \in {<<l>> : l \in LetterSet} THEN ans0 ELSE <<"A">>
             IN  JObj(SetItem(q3, "answer", JStr(ans)))
        ELSE IF q2["type"] = JStr(MATCHING)
        THEN LET q3 == SetDefault(q2, "pairs", JList(<<>>))
             IN  IF Get(q3, "answer", JList(<<>>))[1] # "list"
                 THEN JObj(SetItem(q3, "answer", JList(<<>>)))
                 ELSE JObj(q3)
        ELSE JObj(q2)

normalize_question(v, q, idx) ==
    IF v = "v1" THEN normalize_question_v1(q, idx) ELSE normalize_question_v2(q, idx)


(***************************************************************************)
(* generate_questions                                                      *)
(***************************************************************************)
Min(a, b) == IF a < b THEN a ELSE b

\* the placeholder question source of the padding loop (v1)
Dummy(i) ==
    JObj([id |-> JNum(i + 1), type |-> JStr(TEXT),
          options |-> JList(<<JStr(<<"A">>), JStr(<<"B">>), JStr(<<"C">>), JStr(<<"D">>)>>),
          answer |-> JStr(<<"A">>)])

\* [normalize_question(q, i) for i, q in enumerate(data[:n])]
Normalized(v, data, n) ==
    [i \in 1..Min(Len(data), n) |-> normalize_question(v, data[i], i - 1)]

\* the list returned for a decoded array (as a list value), Raise when an element
\* makes normalize_question raise; v1 pads with placeholders up to n, v2 does not
generate_questions(v, data, n) ==
    LET normed == Normalized(v, data, n)
    IN  IF \E i \in 1..Len(normed) : normed[i][1] = "raise" THEN Raise
        ELSE IF v = "v1"
        THEN JList([i \in 1..n |-> IF i <= Len(normed) THEN normed[i][2]
                                   ELSE normalize_question(v, Dummy(i - 1), i - 1)[2]])
        ELSE JList([i \in 1..Len(normed) |-> normed[i][2]])

(***************************************************************************)
(* Main area: answer capture, score and review                             *)
(***************************************************************************)
\* which widget the in-progress branch shows for q
IsMultipleChoice(v, q) == v = "v1" \/ q["type"] = JStr(MULTIPLE_CHOICE)
IsMatching(v, q) == v = "v2" /\ q["type"] = JStr(MATCHING)

\* options = q.get("options", ...), a list of strings in the sessions considered
OptionsOf(q) == Get(q, "options", JList(DefaultOptions))[2]

\* pairs = q.get("pairs", [])
PairsOf(q) == Get(q, "pairs", JList(<<>>))[2]
right_items(q) == [i \in 1..Len(PairsOf(q)) |-> PairsOf(q)[i][2]["right"]]

\* default_index = letters.index(current_answer) if current_answer in letters else None,
\* as a position 1..4 of the radio, 0 for None
default_index(current_answer) ==
    IF current_answer[1] = "str" /\ Len(current_answer[2]) = 1 /\ current_answer[2][1] \in LetterSet
    THEN CHOOSE i \in 1..4 : letters[i] = current_answer[2][1]
    ELSE 0

\* the value of a radio shown for the first time (no widget state yet)
FreshRadio(v, qs, ans, idx) ==
    IF qs # <<>> /\ IsMultipleChoice(v, qs[idx + 1])
       /\ default_index(ans[idx + 1]) <= Len(OptionsOf(qs[idx + 1]))
    THEN default_index(ans[idx + 1]) ELSE 0

\* the values of the selectboxes of a matching question shown for the first time: "-"
FreshSelect(v, qs, idx) ==
    IF qs # <<>> /\ IsMatching(v, qs[idx + 1])
    THEN [i \in 1..Len(PairsOf(qs[idx + 1])) |-> 0] ELSE <<>>

\* chosen_letter = choice.split(".")[0].strip()
chosen_letter(choice) == JStr(Strip(SplitDot0(choice)))

\* right_items.index(ans) if ans in right_items else None, for the item at
\* position pos of ["-"] + right_items
SelectedIndex(items, pos) ==
    LET val == IF pos = 0 THEN JStr(<<"-">>) ELSE items[pos]
    IN  IF \E j \in 1..Len(items) : items[j] = val
        THEN JNum((CHOOSE j \in 1..Len(items) :
                     items[j] = val /\ \A k \in 1..(j - 1) : items[k] # val) - 1)
        ELSE JNull

\* Capture with the chosen letter stored in every slot instead of slot idx
CaptureWritesEverySlot(v, qs, ans, idx, rad, sel) ==
    LET q == qs[idx + 1]
    IN  IF IsMultipleChoice(v, q)
        THEN IF rad # 0 /\ OptionsOf(q)[rad][2] # <<>>
             THEN [i \in 1..Len(ans) |-> chosen_letter(OptionsOf(q)[rad][2])]
             ELSE ans
        ELSE IF IsMatching(v, q)
        THEN [ans EXCEPT ![idx + 1] =
                 JList([i \in 1..Len(PairsOf(q)) |-> SelectedIndex(right_items(q), sel[i])])]
        ELSE ans

\* the answers array after the in-progress branch has drawn question idx
\* with the widget values rad and sel
Capture(v, qs, ans, idx, rad, sel) ==
    LET q == qs[idx + 1]
    IN  IF IsMultipleChoice(v, q)
        THEN IF rad # 0 /\ OptionsOf(q)[rad][2] # <<>>
             THEN [ans EXCEPT ![idx + 1] = chosen_letter(OptionsOf(q)[rad][2])]
             ELSE ans
        ELSE IF IsMatching(v, q)
        THEN [ans EXCEPT ![idx + 1] =
                 JList([i \in 1..Len(PairsOf(q)) |-> SelectedIndex(right_items(q), sel[i])])]
        ELSE ans

\* all(a in {"A","B","C","D"} for a in answers)
all_answered(ans) ==
    \A i \in 1..Len(ans) : ans[i][1] = "str" /\ ans[i][2] \in {<<l>> : l \in LetterSet}

\* the correctness flags of the result branch, one append per loop iteration
RECURSIVE Flags(_, _, _, _)
Flags(v, qs, ans, i) ==
    IF i > Min(Len(qs), Len(ans)) THEN <<>>
    ELSE LET q == qs[i]
             flag == IF v = "v1"
                     THEN <<IF ans[i] = JStr(Upper(Get(q, "answer", JStr(<<"A">>))[2])) THEN 1 ELSE 0>>
                     ELSE IF q["type"] = JStr(MULTIPLE_CHOICE) \/ q["type"] = JStr(MATCHING)
                     THEN <<IF ans[i] = Get(q, "answer", JNull) THEN 1 ELSE 0>>
                     ELSE <<>>
         IN  flag \o Flags(v, qs, ans, i + 1)

RECURSIVE Sum(_)
Sum(f) == IF f = <<>> THEN 0 ELSE Head(f) + Sum(Tail(f))

\* no score: the division raised ZeroDivisionError, or no result is shown
NoScore == -1

\* round(sum(correct_flags) / len(correct_flags) * 100, 2), in hundredths
Score(flags) ==
    IF Len(flags) = 0 THEN NoScore
    ELSE (20000 * Sum(flags) + Len(flags)) \div (2 * Len(flags))


(***************************************************************************)
(* Inputs of the session                                                   *)
(***************************************************************************)
\* an object of the decoded array with the given type/options/answer/pairs,
\* Absent for a key the object does not have
RawObject(ty, op, an, pa) ==
    LET f == [type |-> ty, options |-> op, answer |-> an, pairs |-> pa]
    IN  JObj([k \in {j \in DOMAIN f : f[j][1] # "absent"} |-> f[k]])

Pair(l, r) == JObj([left |-> JStr(l), right |-> JStr(r)])

\* {} : every field defaulted
QEmpty == JObj(EmptyDict)
\* four options labelled in lower case, answer in lower case
QLower == RawObject(Absent,
                    JList(<<JStr(<<"a", ".", " ", "w">>), JStr(<<"b", ".", " ", "x">>),
                            JStr(<<"c", ".", " ", "y">>), JStr(<<"d", ".", " ", "z">>)>>),
                    JStr(<<"a">>), Absent)
\* a matching question of two pairs, key [1, 0]
QMatch == RawObject(JStr(MATCHING), Absent, JList(<<JNum(1), JNum(0)>>),
                    JList(<<Pair(<<"p">>, <<"r">>), Pair(<<"q">>, <<"s">>)>>))
\* a type that is neither multiple_choice nor matching
QEssay == RawObject(JStr(ESSAY), Absent, Absent, Absent)

\* the elements a decoded array is made of in the session runs; the last one
\* is not an object
SessionRaw == <<QEssay, QEmpty, QLower, QMatch, JNum(5)>>

\* the array of len elements taken in turn from SessionRaw, beginning at first
ArrayFrom(first, len) ==
    [i \in 1..len |-> SessionRaw[((first + i - 2) % Len(SessionRaw)) + 1]]

\* the decoded arrays extract_json_array hands over: empty, shorter than asked
\* for, as long, and one element longer
DecodedArrays ==
    {ArrayFrom(first, len) : first \in 1..Len(SessionRaw), len \in 0..(RequestedCount + 1)}

(***************************************************************************)
(* The script: sidebar handler, then main area, once per user interaction  *)
(***************************************************************************)
Init ==
    /\ variant \in {"v1", "v2"}
    /\ questions = <<>>
    /\ answers = <<>>
    /\ current_index = 0
    /\ submitted = FALSE
    /\ radio = 0
    /\ selectbox = <<>>
    /\ view = "info"
    /\ correct_flags = <<>>
    /\ score = NoScore
    /\ event = "init"
    /\ raw = JNull
    /\ ordinal = 0
    /\ result = JNull

\* MainArea with the answer capture also run in the result branch, where no
\* radio is drawn: the slot of the current question is overwritten with None
MainAreaCapturesAfterSubmit(qs, ans, idx, sub, rad, sel) ==
    /\ questions' = qs
    /\ current_index' = idx
    /\ submitted' = sub
    /\ IF qs = <<>>
       THEN /\ answers' = ans
            /\ view' = "info"
            /\ radio' = 0 /\ selectbox' = <<>>
            /\ correct_flags' = <<>> /\ score' = NoScore
       ELSE IF ~sub /\ idx >= Len(qs)
       THEN /\ answers' = ans
            /\ view' = "error"
            /\ radio' = 0 /\ selectbox' = <<>>
            /\ correct_flags' = <<>> /\ score' = NoScore
       ELSE IF ~sub
       THEN /\ answers' = Capture(variant, qs, ans, idx, rad, sel)
            /\ view' = "question"
            /\ radio' = (IF IsMultipleChoice(variant, qs[idx + 1]) THEN rad ELSE 0)
            /\ selectbox' = (IF IsMatching(variant, qs[idx + 1]) THEN sel ELSE <<>>)
            /\ correct_flags' = <<>> /\ score' = NoScore
       ELSE /\ answers' = [ans EXCEPT ![idx + 1] = JNull]
            /\ radio' = 0 /\ selectbox' = <<>>
            /\ correct_flags' = Flags(variant, qs, ans, 1)
            /\ score' = Score(Flags(variant, qs, ans, 1))
            /\ view' = (IF Flags(variant, qs, ans, 1) = <<>> THEN "result_error" ELSE "result")

\* one pass of the main area over the session state (qs, ans, idx, sub) with the
\* widget values rad and sel and no button pressed; questions[idx] raises
\* IndexError past the end of the list and the run ends there
MainArea(qs, ans, idx, sub, rad, sel) ==
    /\ questions' = qs
    /\ current_index' = idx
    /\ submitted' = sub
    /\ IF qs = <<>>
       THEN /\ answers' = ans
            /\ view' = "info"
            /\ radio' = 0 /\ selectbox' = <<>>
            /\ correct_flags' = <<>> /\ score' = NoScore
       ELSE IF ~sub /\ idx >= Len(qs)
       THEN /\ answers' = ans
            /\ view' = "error"
            /\ radio' = 0 /\ selectbox' = <<>>
            /\ correct_flags' = <<>> /\ score' = NoScore
       ELSE IF ~sub
       THEN /\ answers' = Capture(variant, qs, ans, idx, rad, sel)
            /\ view' = "question"
            /\ radio' = (IF IsMultipleChoice(variant, qs[idx + 1]) THEN rad ELSE 0)
            /\ selectbox' = (IF IsMatching(variant, qs[idx + 1]) THEN sel ELSE <<>>)
            /\ correct_flags' = <<>> /\ score' = NoScore
       ELSE /\ answers' = ans
            /\ radio' = 0 /\ selectbox' = <<>>
            /\ correct_flags' = Flags(variant, qs, ans, 1)
            /\ score' = Score(Flags(variant, qs, ans, 1))
            /\ view' = (IF Flags(variant, qs, ans, 1) = <<>> THEN "result_error" ELSE "result")

\* Aborted with the session fields of the start handler assigned before the
\* call that raises
AbortedClearsSubmitted ==
    /\ view' = "error"
    /\ correct_flags' = <<>> /\ score' = NoScore
    /\ submitted' = FALSE
    /\ UNCHANGED <<questions, answers, current_index, radio, selectbox>>

\* the script run ends in an exception raised in the sidebar: nothing below it is drawn
Aborted ==
    /\ view' = "error"
    /\ correct_flags' = <<>> /\ score' = NoScore
    /\ UNCHANGED <<questions, answers, current_index, submitted, radio, selectbox>>

\* the main area drawn over the unchanged session state
Redraw == MainArea(questions, answers, current_index, submitted, radio, selectbox)

\* the session a returned question list qs is stored as
NewSession(qs) ==
    LET none == [i \in 1..Len(qs) |-> JNull]
    IN  MainArea(qs, none, 0, FALSE, FreshRadio(variant, qs, none, 0), FreshSelect(variant, qs, 0))

\* what generate_questions gives for the decoded arrays, per variant
Generated ==
    [v \in {"v1", "v2"} |-> {generate_questions(v, data, RequestedCount) : data \in DecodedArrays}]

\* MULAI TES with the fields filled in and a response that decodes; qs is what
\* generate_questions gives for it
Start(qs) ==
    /\ IF qs[1] = "raise"
       THEN /\ event' = "start_failed"
            /\ IF variant = "v1" THEN Redraw ELSE Aborted
       ELSE /\ event' = "start_ok"
            /\ NewSession(qs[2])
    /\ UNCHANGED <<variant, normVars>>

\* StartError with the answers of the session cleared before the call that raises
StartErrorClearsAnswers ==
    /\ event' = "start_failed"
    /\ view' = "error"
    /\ correct_flags' = <<>> /\ score' = NoScore
    /\ answers' = [i \in 1..Len(answers) |-> JNull]
    /\ UNCHANGED <<questions, current_index, submitted, radio, selectbox>>
    /\ UNCHANGED <<variant, normVars>>

\* MULAI TES when call_gemini or extract_json_array raises
StartError ==
    /\ event' = "start_failed"
    /\ IF variant = "v1" THEN Redraw ELSE Aborted
    /\ UNCHANGED <<variant, normVars>>

\* MULAI TES with the API key or the aspiration left empty
StartRejected ==
    /\ event' = "start_failed"
    /\ Redraw
    /\ UNCHANGED <<variant, normVars>>

\* a rerun with no button pressed (any other sidebar widget touched)
Rerender ==
    /\ event' = "rerender"
    /\ Redraw
    /\ UNCHANGED <<variant, normVars>>

\* the user picks option p of the radio
SelectRadio(p) ==
    /\ view = "question"
    /\ IsMultipleChoice(variant, questions[current_index + 1])
    /\ p \in 1..Len(OptionsOf(questions[current_index + 1]))
    /\ event' = "select"
    /\ MainArea(questions, answers, current_index, submitted, p, selectbox)
    /\ UNCHANGED <<variant, normVars>>

\* the user picks entry pos of the selectbox of row i (0 is "-")
SelectMatch(i, pos) ==
    /\ view = "question"
    /\ IsMatching(variant, questions[current_index + 1])
    /\ i \in 1..Len(selectbox)
    /\ pos \in 0..Len(selectbox)
    /\ event' = "match"
    /\ MainArea(questions, answers, current_index, submitted, radio,
                [selectbox EXCEPT ![i] = pos])
    /\ UNCHANGED <<variant, normVars>>

\* the index the Sebelumnya button moves to: max(0, idx - 1) in v1, idx - 1 in v2
PreviousIndex(v, idx) == IF v = "v1" /\ idx - 1 < 0 THEN 0 ELSE idx - 1

\* the index the Berikutnya button moves to: min(total - 1, idx + 1) in v1, idx + 1 in v2
NextIndex(v, idx, total) == IF v = "v1" /\ idx + 1 > total - 1 THEN total - 1 ELSE idx + 1

\* a navigation button: the run captures, moves the index and reruns
GoTo(idx) ==
    LET captured == Capture(variant, questions, answers, current_index, radio, selectbox)
    IN  MainArea(questions, captured, idx, submitted,
                 FreshRadio(variant, questions, captured, idx),
                 FreshSelect(variant, questions, idx))

\* Sebelumnya, disabled on the first question
Previous ==
    /\ view = "question"
    /\ current_index # 0
    /\ event' = "previous"
    /\ GoTo(PreviousIndex(variant, current_index))
    /\ UNCHANGED <<variant, normVars>>

\* Next_ with the Berikutnya button left enabled on the last question
NextOnLastQuestion ==
    /\ view = "question"
    /\ event' = "next"
    /\ GoTo(NextIndex(variant, current_index, Len(questions)))
    /\ UNCHANGED <<variant, normVars>>

\* Berikutnya, disabled on the last question
Next_ ==
    /\ view = "question"
    /\ current_index # Len(questions) - 1
    /\ event' = "next"
    /\ GoTo(NextIndex(variant, current_index, Len(questions)))
    /\ UNCHANGED <<variant, normVars>>

\* whether the Kumpulkan Jawaban button is enabled
SubmitEnabled(v, ans) == v = "v2" \/ all_answered(ans)

Submit ==
    /\ view = "question"
    /\ SubmitEnabled(variant, answers)
    /\ event' = "submit"
    /\ MainArea(questions,
                Capture(variant, questions, answers, current_index, radio, selectbox),
                current_index, TRUE, 0, <<>>)
    /\ UNCHANGED <<variant, normVars>>

\* Reset with the answers list left as it was
ResetKeepsAnswers ==
    /\ view = "result"
    /\ event' = "reset"
    /\ questions' = <<>> /\ current_index' = 0 /\ submitted' = FALSE
    /\ view' = "info"
    /\ radio' = 0 /\ selectbox' = <<>>
    /\ correct_flags' = <<>> /\ score' = NoScore
    /\ UNCHANGED <<answers, variant, normVars>>

\* Kerjakan Lagi, a button of the result view
Reset ==
    /\ view = "result"
    /\ event' = "reset"
    /\ MainArea(<<>>, <<>>, 0, FALSE, 0, <<>>)
    /\ UNCHANGED <<variant, normVars>>

Next ==
    \/ \E qs \in Generated[variant] : Start(qs)
    \/ StartError
    \/ StartRejected
    \/ Rerender
    \/ \E p \in 1..4 : SelectRadio(p)
    \/ \E i \in 1..Len(selectbox), pos \in 0..Len(selectbox) : SelectMatch(i, pos)
    \/ Previous
    \/ Next_
    \/ Submit
    \/ Reset

Spec == Init /\ [][Next]_vars

(***************************************************************************)
(* The normaliser on its own: one decoded element in, one question out     *)
(***************************************************************************)
TypeValues == {Absent, JStr(MULTIPLE_CHOICE), JStr(MATCHING), JStr(ESSAY), JNum(5), JNull}

OptionValues ==
    {Absent, JNull, JNum(7), JList(<<>>),
     JList(<<JStr(<<"x">>), JStr(<<"y">>)>>),
     JList(<<JNum(1), JNull>>),
     JList(<<JStr(<<"a", ".", "x">>), JStr(<<" ", "B", ".", " ", "y">>),
             JStr(<<"c", ".", " ", "(", "b", "e", "n", "a", "r", ")">>)>>),
     JList(<<JStr(<<"p">>), JStr(<<"q">>), JStr(<<"r">>), JStr(<<"s">>), JStr(<<"t">>)>>),
     JObj([A |-> JStr(<<"p">>), B |-> JNum(2)])}

AnswerValues ==
    {Absent, JNull, JNum(5), JStr(<<"A">>), JStr(<<" ", "b", " ">>), JStr(<<"z">>),
     JList(<<JNum(1), JNum(0)>>), JList(<<JNum(5)>>)}

PairValues ==
    {Absent, JNum(5), JList(<<>>), JList(<<Pair(<<"p">>, <<"r">>), Pair(<<"q">>, <<"s">>)>>)}

\* elements of a decoded array that are not objects
NonObjects == {JNull, JNum(5), JStr(<<>>), JStr(<<"a", "b", "c">>), JList(<<>>), JList(<<JNum(1)>>)}

RawDomain ==
    NonObjects \cup
    {RawObject(ty, op, an, pa) :
        ty \in TypeValues, op \in OptionValues, an \in AnswerValues, pa \in PairValues}

\* normalize_question has not been called yet
Pending == <<"pending", 0>>

NormInit ==
    /\ variant \in {"v1", "v2"}
    /\ raw \in RawDomain
    /\ ordinal \in 0..MaxOrdinal
    /\ result = Pending
    /\ questions = <<>>
    /\ answers = <<>>
    /\ current_index = 0
    /\ submitted = FALSE
    /\ radio = 0
    /\ selectbox = <<>>
    /\ view = "info"
    /\ correct_flags = <<>>
    /\ score = NoScore
    /\ event = "init"

Normalize ==
    /\ result = Pending
    /\ result' = normalize_question(variant, raw, ordinal)
    /\ UNCHANGED <<variant, questions, answers, current_index, submitted, radio,
                   selectbox, view, correct_flags, score, event, raw, ordinal>>

NormNext == Normalize

SpecNorm == NormInit /\ [][NormNext]_vars

(***************************************************************************)
(* generate_questions on its own: one decoded array in, one list out       *)
(***************************************************************************)
\* an object that carries the id the generator supplied
WithId(n) == JObj([id |-> JNum(n)])

\* elements with and without a supplied id
IdRaw == {QEmpty, WithId(1), WithId(2)}

\* the decoded arrays of up to RequestedCount + 1 such elements
IdArrays == UNION {[1..k -> IdRaw] : k \in 0..(RequestedCount + 1)}

GenInit ==
    /\ variant \in {"v1", "v2"}
    /\ raw \in {JList(a) : a \in IdArrays}
    /\ ordinal = 0
    /\ result = Pending
    /\ questions = <<>>
    /\ answers = <<>>
    /\ current_index = 0
    /\ submitted = FALSE
    /\ radio = 0
    /\ selectbox = <<>>
    /\ view = "info"
    /\ correct_flags = <<>>
    /\ score = NoScore
    /\ event = "init"

Generate ==
    /\ result = Pending
    /\ result' = generate_questions(variant, raw[2], RequestedCount)
    /\ UNCHANGED <<variant, questions, answers, current_index, submitted, radio,
                   selectbox, view, correct_flags, score, event, raw, ordinal>>

GenNext == Generate

SpecGen == GenInit /\ [][GenNext]_vars

(***************************************************************************)
(* extract_json_array: the text of a response in, the decoded array out    *)
(***************************************************************************)
\* the backquote character (a name stands for it: the character itself cannot
\* be written in a string here)
Backquote == "backquote"

\* the three backquotes of a code fence
Fence == <<Backquote, Backquote, Backquote>>

Alpha ==
    {"a","b","c","d","e","f","g","h","i","j","k","l","m","n","o","p","q","r","s","t",
     "u","v","w","x","y","z","A","B","C","D","E","F","G","H","I","J","K","L","M","N",
     "O","P","Q","R","S","T","U","V","W","X","Y","Z"}

DigitChars == {"0","1","2","3","4","5","6","7","8","9"}

\* s without its leading letters: what [a-zA-Z]* consumes
RECURSIVE DropAlpha(_)
DropAlpha(s) == IF s # <<>> /\ Head(s) \in Alpha THEN DropAlpha(Tail(s)) ELSE s

\* re.sub(r"^<fence>[a-zA-Z]*", "", s)
StripLeadingFence(s) ==
    IF StartsWith(s, Fence) THEN DropAlpha(SubSeq(s, 4, Len(s))) ELSE s

\* re.sub(r"<fence>$", "", s): $ matches at the end and before a final newline
StripTrailingFence(s) ==
    IF Len(s) >= 3 /\ SubSeq(s, Len(s) - 2, Len(s)) = Fence
    THEN SubSeq(s, 1, Len(s) - 3)
    ELSE IF Len(s) >= 4 /\ SubSeq(s, Len(s) - 3, Len(s)) = Fence \o <<"\n">>
    THEN SubSeq(s, 1, Len(s) - 4) \o <<"\n">>
    ELSE s

\* re.search(r"\[.*\]", s, flags=re.DOTALL): from the first "[" to the last
\* "]" after it; <<>> when there is no match
Block(s) ==
    IF \E i, j \in 1..Len(s) : i < j /\ s[i] = "[" /\ s[j] = "]"
    THEN LET i == CHOOSE a \in 1..Len(s) : s[a] = "[" /\ \A b \in 1..(a - 1) : s[b] # "["
             j == CHOOSE a \in 1..Len(s) : s[a] = "]" /\ \A b \in (a + 1)..Len(s) : s[b] # "]"
         IN  SubSeq(s, i, j)
    ELSE <<>>

\* re.sub(r",\s*]", "]", s)
RECURSIVE RepairCommas(_)
RepairCommas(s) ==
    IF s = <<>> THEN <<>>
    ELSE IF Head(s) = "," /\ LStrip(Tail(s)) # <<>> /\ Head(LStrip(Tail(s))) = "]"
    THEN <<"]">> \o RepairCommas(Tail(LStrip(Tail(s))))
    ELSE <<Head(s)>> \o RepairCommas(Tail(s))

\* what the decoder gives: ok with the value and the rest of the text, or Failed
Failed == <<"failed", 0, <<>>>>

\* a JSON string after its opening quote (no escapes; a raw newline is an error)
RECURSIVE ParseString(_, _)
ParseString(s, acc) ==
    IF s = <<>> \/ Head(s) = "\n" \/ Head(s) = "\\" THEN Failed
    ELSE IF Head(s) = "\"" THEN <<"ok", JStr(acc), Tail(s)>>
    ELSE ParseString(Tail(s), acc \o <<Head(s)>>)

\* a JSON non-negative integer of one digit
ParseNumber(s) ==
    <<"ok", JNum(CHOOSE n \in 0..9 : Digit(n) = Head(s)), Tail(s)>>

RECURSIVE ParseValue(_)
RECURSIVE ParseElements(_, _)
\* the elements of a JSON array after "[" or ",", up to the closing "]"
ParseElements(s, acc) ==
    LET r == ParseValue(s)
        t == LStrip(r[3])
    IN  IF r[1] # "ok" \/ t = <<>> THEN Failed
        ELSE IF Head(t) = "," THEN ParseElements(Tail(t), acc \o <<r[2]>>)
        ELSE IF Head(t) = "]" THEN <<"ok", JList(acc \o <<r[2]>>), Tail(t)>>
        ELSE Failed

\* one JSON value of the subset arrays, strings, one-digit integers
ParseValue(s) ==
    LET t == LStrip(s)
    IN  IF t = <<>> THEN Failed
        ELSE IF Head(t) = "[" THEN
             IF LStrip(Tail(t)) # <<>> /\ Head(LStrip(Tail(t))) = "]"
             THEN <<"ok", JList(<<>>), Tail(LStrip(Tail(t)))>>
             ELSE ParseElements(Tail(t), <<>>)
        ELSE IF Head(t) = "\"" THEN ParseString(Tail(t), <<>>)
        ELSE IF Head(t) \in DigitChars THEN ParseNumber(t)
        ELSE Failed

\* json.loads(s): Raise for text that is not one JSON value
json_loads(s) ==
    LET r == ParseValue(s)
    IN  IF r[1] = "ok" /\ LStrip(r[3]) = <<>> THEN r[2] ELSE Raise

extract_json_array(text) ==
    LET cleaned == StripTrailingFence(StripLeadingFence(Strip(text)))
        block == Block(cleaned)
    IN  IF block = <<>> THEN Raise
        ELSE json_loads(RepairCommas(block))

\* the JSON text of a decoded value; with commas, every non-empty array has
\* a comma and a newline before its closing bracket
RECURSIVE Encode(_, _)
RECURSIVE EncodeItems(_, _)
Encode(x, commas) ==
    CASE x[1] = "str" -> <<"\"">> \o x[2] \o <<"\"">>
      [] x[1] = "num" -> <<Digit(x[2])>>
      [] OTHER -> <<"[">> \o EncodeItems(x[2], commas)
                  \o (IF commas /\ x[2] # <<>> THEN <<",", "\n">> ELSE <<>>) \o <<"]">>
EncodeItems(l, commas) ==
    IF l = <<>> THEN <<>>
    ELSE IF Len(l) = 1 THEN Encode(l[1], commas)
    ELSE Encode(l[1], commas) \o <<",", " ">> \o EncodeItems(Tail(l), commas)

\* the language tags of the opening fence line
FenceTags == <<<<>>, <<"j", "s", "o", "n">>>>

\* text between an opening fence line with tag and a closing fence
Fenced(text, tag) == Fence \o tag \o <<"\n">> \o text \o <<"\n">> \o Fence

\* the longest array of the responses
MaxItems == 2

\* array elements: a number, a string, a string with a comma before a
\* bracket inside it, a nested array
ItemValues == {JNum(1), JStr(<<"a">>), JStr(<<"a", ",", "]">>), JList(<<JNum(2)>>)}

ArrayValues == UNION {[1..k -> ItemValues] : k \in 0..MaxItems}

\* both extractions have been made
Both(a, b) == <<"both", <<a, b>>>>

ExtractInit ==
    /\ variant \in {"v1", "v2"}
    /\ raw \in {JList(a) : a \in ArrayValues}
    /\ ordinal \in 1..Len(FenceTags)
    /\ result = Pending
    /\ questions = <<>>
    /\ answers = <<>>
    /\ current_index = 0
    /\ submitted = FALSE
    /\ radio = 0
    /\ selectbox = <<>>
    /\ view = "info"
    /\ correct_flags = <<>>
    /\ score = NoScore
    /\ event = "init"

\* extract_json_array on the array in fences with trailing commas, and on the
\* same array without either
Extract ==
    /\ result = Pending
    /\ result' = Both(extract_json_array(Fenced(Encode(raw, TRUE), FenceTags[ordinal])),
                      extract_json_array(Encode(raw, FALSE)))
    /\ UNCHANGED <<variant, questions, answers, current_index, submitted, radio,
                   selectbox, view, correct_flags, score, event, raw, ordinal>>

ExtractNext == Extract

SpecExtract == ExtractInit /\ [][ExtractNext]_vars

(***************************************************************************)
(* The matching capture on its own: one question in, the recorded slot out *)
(***************************************************************************)
\* the most pairs of a matching question
MaxPairs == 3

\* the right-hand texts of the pairs; two pairs may have the same text
RightTexts == {<<"r">>, <<"s">>}

\* the matching question with the right-hand items rights and the key key
MatchingRaw(rights, key) ==
    RawObject(JStr(MATCHING), Absent, JList([i \in 1..Len(key) |-> JNum(key[i])]),
              JList([i \in 1..Len(rights) |-> Pair(<<"p">>, rights[i])]))

\* matching questions whose key has one valid right-item index per pair
MatchingDomain ==
    UNION {{MatchingRaw(rights, key) :
               rights \in [1..n -> RightTexts], key \in [1..n -> 0..(n - 1)]} :
           n \in 0..MaxPairs}

\* the select boxes set, row by row, to the right-hand item at the position
\* the key names (entry 0 of a select box is "-")
SelectionOfKey(q) == [i \in 1..Len(q["answer"][2]) |-> q["answer"][2][i][2] + 1]

MatchInit ==
    /\ variant = "v2"
    /\ raw \in MatchingDomain
    /\ ordinal = 0
    /\ result = Pending
    /\ questions = <<>>
    /\ answers = <<>>
    /\ current_index = 0
    /\ submitted = FALSE
    /\ radio = 0
    /\ selectbox = <<>>
    /\ view = "info"
    /\ correct_flags = <<>>
    /\ score = NoScore
    /\ event = "init"

\* the question is normalised and drawn with the selections of its key
SelectKey ==
    /\ result = Pending
    /\ LET q == normalize_question(variant, raw, ordinal)[2]
       IN  result' = JList(Capture(variant, <<q>>, <<JNull>>, 0, 0, SelectionOfKey(q)))
    /\ UNCHANGED <<variant, questions, answers, current_index, submitted, radio,
                   selectbox, view, correct_flags, score, event, raw, ordinal>>

MatchNext == SelectKey

SpecMatch == MatchInit /\ [][MatchNext]_vars


(***************************************************************************)
(* Properties                                                              *)
(***************************************************************************)
IsLetter(a) == a[1] = "str" /\ a[2] \in {<<l>> : l \in LetterSet}

\* a slot counts as answered: a letter A-D for multiple choice, a sequence
\* with one entry per pair for matching
SlotAnswered(q, a) ==
    IF IsMatching(variant, q)
    THEN a[1] = "list" /\ Len(a[2]) = Len(PairsOf(q))
    ELSE IsLetter(a)

AllAnswered == \A i \in 1..Len(questions) : SlotAnswered(questions[i], answers[i])

\* C1: in every reachable state, submitted = true implies that every answer
\* slot is answered
C1_SubmittedImpliesAllAnswered == submitted => AllAnswered

\* C2: after a successful start the session holds exactly RequestedCount
\* questions, whatever the length of the decoded array
C2_ExactlyRequestedCount == event = "start_ok" => Len(questions) = RequestedCount

\* C3: when the result is shown there is exactly one correctness flag per
\* question, the division succeeds, and the score is 100 * (flags equal to 1) / n
\* with n the number of questions (in hundredths, rounded)
C3_ScoreOverAllQuestions ==
    view \in {"result", "result_error"} =>
        /\ Len(correct_flags) = Len(questions)
        /\ score # NoScore
        /\ score = (20000 * Sum(correct_flags) + Len(questions)) \div (2 * Len(questions))

\* the type of the raw element is missing or is neither of the two variants
UnrecognizedType(r) ==
    \/ "type" \notin DOMAIN Dict(r)
    \/ /\ Dict(r)["type"] # JStr(MULTIPLE_CHOICE)
       /\ Dict(r)["type"] # JStr(MATCHING)

\* C4: normalize_question (v2) gives a question whose type is missing or
\* unrecognized the type multiple_choice, options and an answer letter
C4_UnknownTypeIsMultipleChoice ==
    (variant = "v2" /\ result[1] = "obj" /\ UnrecognizedType(raw)) =>
        /\ result[2]["type"] = JStr(MULTIPLE_CHOICE)
        /\ "options" \in DOMAIN result[2]
        /\ "answer" \in DOMAIN result[2] /\ IsLetter(result[2]["answer"])

\* C5: normalize_question never raises, whatever the element of the decoded array
C5_NeverRaises == result[1] # "raise"

\* the question is handled as multiple choice: every question in v1, the
\* questions of type multiple_choice in v2
ResultIsMultipleChoice ==
    result[1] = "obj" /\ (variant = "v1" \/ result[2]["type"] = JStr(MULTIPLE_CHOICE))

\* C6: every multiple-choice question returned by normalize_question has
\* exactly 4 options, option i starting with "A. ", "B. ", "C. ", "D. ", and
\* an answer in A-D
C6_FourLabelledOptions ==
    ResultIsMultipleChoice =>
        /\ "options" \in DOMAIN result[2]
        /\ result[2]["options"][1] = "list"
        /\ Len(result[2]["options"][2]) = 4
        /\ \A i \in 1..4 :
              /\ result[2]["options"][2][i][1] = "str"
              /\ StartsWith(result[2]["options"][2][i][2], <<letters[i], ".", " ">>)
        /\ "answer" \in DOMAIN result[2]
        /\ IsLetter(result[2]["answer"])

\* C7: every matching question returned by normalize_question (v2) has an
\* answer key with one entry per pair, each a valid index into the right items
C7_CorrectOrderMatchesPairs ==
    (variant = "v2" /\ result[1] = "obj" /\ result[2]["type"] = JStr(MATCHING)) =>
        /\ result[2]["pairs"][1] = "list"
        /\ "answer" \in DOMAIN result[2]
        /\ result[2]["answer"][1] = "list"
        /\ Len(result[2]["answer"][2]) = Len(result[2]["pairs"][2])
        /\ \A i \in 1..Len(result[2]["answer"][2]) :
              /\ result[2]["answer"][2][i][1] = "num"
              /\ result[2]["answer"][2][i][2] \in 0..(Len(result[2]["pairs"][2]) - 1)

\* correct according to the scoring rule: the recorded letter equals the key
\* ignoring case; the recorded sequence equals the key element by element
CorrectByRule(q, a) ==
    LET key == Get(q, "answer", JNull)
    IN  IF IsMatching(variant, q)
        THEN a[1] = "list" /\ key[1] = "list" /\ a[2] = key[2]
        ELSE a[1] = "str" /\ key[1] = "str" /\ Upper(a[2]) = Upper(key[2])

\* C8: in the result, question i is flagged correct iff its recorded answer
\* is correct according to the scoring rule
C8_FlagIffCorrectByRule ==
    (view = "result" /\ Len(correct_flags) = Len(questions)) =>
        \A i \in 1..Len(questions) :
            (correct_flags[i] = 1) <=> CorrectByRule(questions[i], answers[i])

\* C9 as stated: no action other than the reset takes a session out of Submitted
C9_OnlyResetLeavesSubmitted ==
    [][(submitted /\ event' # "reset") => submitted']_vars

\* C9: no action other than the reset and a successful start takes a session
\* out of Submitted; a re-render and a failed start leave submitted true
C9_OnlyResetOrStartLeavesSubmitted ==
    [][(submitted /\ event' \notin {"reset", "start_ok"}) => submitted']_vars

\* a start has failed on a submitted session
C9_Witness == submitted /\ event = "start_failed"

\* C10: while the session stays Submitted no answer slot is written and the
\* score shown does not change
C10_NoWriteWhileSubmitted ==
    [][(submitted /\ submitted') =>
          /\ answers' = answers
          /\ (view = "result" /\ view' = "result") => score' = score]_vars

\* the result of a session with a recorded answer has been drawn again
C10_Witness ==
    /\ submitted /\ event = "rerender" /\ view = "result"
    /\ \E i \in 1..Len(answers) : answers[i][1] # "null"

\* C11: whenever the question list is not empty, 0 <= current_index < n, after
\* any sequence of start, previous, next, answer, submit and reset
C11_IndexInRange ==
    questions # <<>> => current_index \in 0..(Len(questions) - 1)

\* Berikutnya has moved the session to its last question
C11_Witness ==
    /\ event = "next" /\ Len(questions) >= 2
    /\ current_index = Len(questions) - 1

\* C12: navigation has no side effect on answers: a press of Sebelumnya or
\* Berikutnya leaves every answer slot as it was, so a slot that was unanswered
\* is still unanswered after its question has merely been displayed
C12_NavigationKeepsAnswers ==
    [][event' \in {"previous", "next"} => answers' = answers]_vars

\* C13: each multiple-choice answer slot is either unanswered or exactly one
\* of A, B, C, D; a choice whose text does not yield such a letter is not recorded
C13_SlotIsNoneOrLetter ==
    \A i \in 1..Len(questions) :
        IsMultipleChoice(variant, questions[i]) =>
            answers[i] = JNull \/ IsLetter(answers[i])

\* C14: when a start fails, questions, answers, current_index and submitted
\* are exactly as they were before the attempt: no half-built session
C14_FailedStartKeepsSession ==
    [][event' = "start_failed" => UNCHANGED sessionVars]_vars

\* a start has failed on a session in progress that has a recorded answer
C14_Witness ==
    /\ event = "start_failed" /\ questions # <<>> /\ ~submitted
    /\ \E i \in 1..Len(answers) : answers[i] # JNull

\* the state a reset leaves behind: the state before the first start
ResetPostState ==
    [][event' = "reset" =>
          /\ questions' = <<>> /\ answers' = <<>>
          /\ current_index' = 0 /\ submitted' = FALSE]_vars

C16_IdsPairwiseDistinct ==
    result[1] = "list" =>
        \A i, j \in 1..Len(result[2]) :
            i # j => result[2][i]["id"] # result[2][j]["id"]

\* C17: len(answers) = len(questions) in every reachable state, and right
\* after a successful start every slot is unanswered, current_index = 0 and
\* submitted = false, also when the start replaces an earlier session
C17_StartGivesFreshSession ==
    /\ Len(answers) = Len(questions)
    /\ event = "start_ok" =>
          /\ \A i \in 1..Len(answers) : answers[i] = JNull
          /\ current_index = 0
          /\ ~submitted

\* option i of the normalised options carries a correctness marker
Marked(opts, i) ==
    /\ opts[1] = "list" /\ i <= Len(opts[2])
    /\ opts[2][i][1] = "str"
    /\ \/ Contains(Upper(opts[2][i][2]), BENAR)
       \/ Contains(Upper(opts[2][i][2]), CORRECT)

\* the answer the fallback policy gives for the raw answer rawAns and the
\* normalised options opts
PolicyAnswer(rawAns, opts) ==
    LET kept == Upper(Strip(Str(rawAns)))
    IN  IF kept \in {<<l>> : l \in LetterSet} THEN kept
        ELSE IF \E i \in 1..4 : Marked(opts, i)
        THEN <<letters[CHOOSE i \in 1..4 :
                          Marked(opts, i) /\ \A k \in 1..(i - 1) : ~Marked(opts, k)]>>
        ELSE <<"A">>

\* C18: the answer of a multiple-choice question returned by
\* normalize_question is the raw answer trimmed and upper-cased when that is
\* one of A-D; otherwise the letter of the first option whose normalised text
\* contains a correctness marker, and A when no option carries one
C18_AnswerFallbackPolicy ==
    ResultIsMultipleChoice =>
        result[2]["answer"] =
            JStr(PolicyAnswer(Get(Dict(raw), "answer", JStr(<<"A">>)),
                              Get(result[2], "options", JNull)))

\* C19: extract_json_array gives the same list for an array in code fences
\* with trailing commas before closing brackets as for the same array without
\* either, and that list is the array itself: the content of no element changes
C19_ToleranceKeepsContent ==
    result[1] = "both" =>
        /\ result[2][1] = result[2][2]
        /\ result[2][1] = raw

\* the radio of q has an option whose recorded text is one of A-D
Answerable(q) ==
    \E p \in 1..Len(OptionsOf(q)) :
        /\ OptionsOf(q)[p][2] # <<>>
        /\ IsLetter(chosen_letter(OptionsOf(q)[p][2]))

\* C20: in the variant that gates submission on all_answered, every question
\* of a started session has at least one selectable option whose recorded
\* letter is in A-D, so that the submit button can eventually be enabled
C20_EveryQuestionAnswerable ==
    variant = "v1" => \A i \in 1..Len(questions) : Answerable(questions[i])

\* C21: for a matching question whose key is a sequence of valid right-item
\* indices, one per pair, selecting in row i the right-hand item at position
\* key[i] records the key, and the question is then flagged correct
C21_KeyIsRecordable ==
    result[1] = "list" =>
        /\ result[2][1] = raw[2]["answer"]
        /\ Flags(variant, <<normalize_question(variant, raw, ordinal)[2]>>, result[2], 1) = <<1>>

====
